---- MODULE Spec2Model ----
(***************************************************************************)
(* Model of src/app.py: the comment board's request handlers               *)
(* (post_comment behind the rate_limited decorator, get_comments,          *)
(* delete_comment), the in-memory rate_store and the comments table.       *)
(*                                                                         *)
(* Requests are served by worker threads (Flask's server is threaded), so  *)
(* the steps of rate_limited.wrapper that touch the shared rate_store are  *)
(* separate actions.  Each handler's database work is one unit of work of  *)
(* the SQLAlchemy session and is one action.  The table is the default     *)
(* SQLite database of DB_PATH (line 13).                                   *)
(***************************************************************************)
EXTENDS Integers, Sequences, FiniteSets, TLC

VARIABLES
    ADMIN_KEY,    \* line 14: os.environ.get("ADMIN_KEY", ""), fixed at start
    clock,        \* the wall clock read by time.time() and datetime.now()
    rate_store,   \* line 53: { ip: [timestamps...] }
    comments,     \* the rows of table "comments"
    pc,           \* per worker thread: where it is in the request it serves
    loc,          \* per worker thread: the locals ip, now, arr of wrapper
    resp,         \* the response the last step returned, if it returned one
    attempts,     \* history: per ip, the `now` of every POST attempt
    admitted,     \* history: per ip, the `now` of every admitted POST attempt
    inserted,     \* history: number of rows ever inserted
    deleted,      \* history: serial number and id of the rows hard-deleted
    ticks,        \* history: number of times the clock has advanced
    overlaps,     \* history: number of requests begun while another was served
    load          \* the traffic of the run: "burst", POSTs only, of any body
                  \* and address; "rapid", the same POST repeated from one
                  \* address; "board", a few POSTs among GETs and DELETEs

vars == <<ADMIN_KEY, clock, rate_store, comments, pc, loc, resp,
          attempts, admitted, inserted, deleted, ticks, overlaps, load>>

----------------------------------------------------------------------------
(* Program constants *)

RATE_LIMIT_WINDOW == 60
RATE_LIMIT_MAX == 5
NAME_MAX == 80
MSG_MAX == 2000
LIMIT_CAP == 200
DEFAULT_LIMIT == 100
DEFAULT_OFFSET == 0

(* Bounds of the model *)

MaxAttempts == 7      \* POST attempts of a run of posts only
MaxBurstRows == 1     \* rows inserted by a burst of posts of any body
MaxComments == 2      \* rows in the table at one time
MaxInserted == 2      \* rows inserted (and POST attempts) by any other run
MaxOverlaps == 1      \* requests begun while another request is being served

\* the clock advances by these amounts, in this order
TickDeltas == <<RATE_LIMIT_WINDOW - 1, 1>>

\* worker threads; a request is taken by the first idle one
Threads == {1, 2}

----------------------------------------------------------------------------
(* Strings.  A Python str is a sequence of runs [c |-> character,          *)
(* n |-> repetitions], no two adjacent runs of one character: "  hi" is    *)
(* <<[c |-> " ", n |-> 2], [c |-> "h", n |-> 1], [c |-> "i", n |-> 1]>>.   *)

Run(ch, k) == [c |-> ch, n |-> k]

Whitespace == {" ", "\t", "\n"}

RECURSIVE StrLen(_)
StrLen(s) == IF s = <<>> THEN 0 ELSE Head(s).n + StrLen(Tail(s))

RECURSIVE lstrip(_)
lstrip(s) ==
    IF s = <<>> THEN <<>>
    ELSE IF Head(s).c \in Whitespace THEN lstrip(Tail(s)) ELSE s

RECURSIVE rstrip(_)
rstrip(s) ==
    IF s = <<>> THEN <<>>
    ELSE IF s[Len(s)].c \in Whitespace THEN rstrip(SubSeq(s, 1, Len(s) - 1))
    ELSE s

\* str.strip()
strip(s) == rstrip(lstrip(s))

\* the slice left out
Slice_All(s, k) == s

\* s[:k]
RECURSIVE Slice(_, _)
Slice(s, k) ==
    IF s = <<>> \/ k <= 0 THEN <<>>
    ELSE IF Head(s).n >= k THEN <<Run(Head(s).c, k)>>
    ELSE <<Head(s)>> \o Slice(Tail(s), k - Head(s).n)

\* the default name of line 36 / 97 / 103 (six letters)
Anon == <<Run("A", 1), Run("n", 1), Run("o", 1), Run("n", 1), Run("i", 1), Run("m", 1)>>

\* `data.get(k) or dflt`: an absent key (None) and "" are both falsy
GetOr(data, k, dflt) ==
    IF k \in DOMAIN data /\ data[k] # <<>> THEN data[k] ELSE dflt

\* line 97
NormName(data) == Slice(strip(GetOr(data, "name", Anon)), NAME_MAX)

\* line 98
NormMsg(data) ==
    Slice(strip(GetOr(data, "msg", GetOr(data, "message", <<>>))), MSG_MAX)

----------------------------------------------------------------------------
(* Request inputs *)

S_Ann == <<Run(" ", 1), Run("A", 1), Run("n", 2), Run(" ", 2)>>
S_hi == <<Run(" ", 1), Run("h", 1), Run("i", 1), Run("\n", 1)>>
S_yo == <<Run("y", 1), Run("o", 1)>>
S_blank == <<Run(" ", 3)>>
S_longName == <<Run("n", NAME_MAX + 1)>>
S_longMsg == <<Run("x", MSG_MAX), Run("y", 1)>>

\* request bodies (JSON object or form), as the dict `data`
Bodies ==
    { [name |-> S_Ann, msg |-> S_hi],
      [msg |-> S_blank, message |-> S_yo],
      [name |-> S_blank, message |-> S_yo],
      [name |-> S_longName, msg |-> S_longMsg],
      [name |-> S_Ann, msg |-> <<>>],
      [name |-> S_Ann] }

\* request.remote_addr; "" stands for a missing address
RemoteAddrs == {"10.0.0.1", ""}

\* line 58
ClientIp(remote_addr) == IF remote_addr # "" THEN remote_addr ELSE "unknown"

Ips == {ClientIp(a) : a \in RemoteAddrs}

\* a DELETE request's credentials: header X-ADMIN-KEY and query admin_key,
\* "" for one that is missing or empty
Credentials ==
    { [hdr |-> "", arg |-> ""],
      [hdr |-> "s3cret", arg |-> ""],
      [hdr |-> "", arg |-> "s3cret"],
      [hdr |-> "other", arg |-> "s3cret"] }

----------------------------------------------------------------------------
(* The comments table (lines 33-49) *)

Max(S) == CHOOSE x \in S : \A y \in S : y <= x

\* id = db.Column(db.Integer, primary_key=True) on SQLite: the rowid of a new
\* row is one more than the largest rowid now in the table
NewId == IF comments = {} THEN 1 ELSE Max({c.id : c \in comments}) + 1

\* line 103: Comment(name=name or default, msg=msg, ts=now); approved defaults
\* to True (line 39); serial is history, not a column
NewComment(name, msg) ==
    [id |-> NewId,
     name |-> IF name # <<>> THEN name ELSE Anon,
     msg |-> msg,
     ts |-> clock,
     approved |-> TRUE,
     serial |-> inserted + 1]

\* lines 41-49: ts is int(self.ts.timestamp() * 1000)
to_dict(c) ==
    [id |-> c.id, name |-> c.name, msg |-> c.msg, ts |-> c.ts * 1000,
     approved |-> c.approved]

----------------------------------------------------------------------------
(* rate_limited (lines 55-68) *)

\* the window taken one second short
InWindow_Short(now, t) == now - t < RATE_LIMIT_WINDOW - 1

\* line 62: [t for t in arr if now - t < RATE_LIMIT_WINDOW]
InWindow(now, t) == now - t < RATE_LIMIT_WINDOW

\* pruning forgotten
Prune_Keep(arr, now) == arr

\* line 62 as a whole
Prune(arr, now) == SelectSeq(arr, LAMBDA t : InWindow(now, t))

\* the limit taken to be one attempt per window
OverLimit_One(arr) == Len(arr) >= 1

\* line 63
OverLimit(arr) == Len(arr) >= RATE_LIMIT_MAX

\* lines 65-66 run before the 429: the rejected attempt recorded
Rejection_Recorded(store, ip, arr, now) == [store EXCEPT ![ip] = Append(arr, now)]

\* lines 63-64: the 429 returns before lines 65-66, the store is left as it was
Rejection(store, ip, arr, now) == store

\* the store of line 66 forgotten
StoreBack_Skipped(store, ip, arr) == store

\* the list stored under every address
StoreBack_All(store, ip, arr) == [i \in DOMAIN store |-> arr]

\* line 66: rate_store[ip] = arr
StoreBack(store, ip, arr) == [store EXCEPT ![ip] = arr]

Idle == [ip |-> "", now |-> 0, arr |-> <<>>]

NoResp == [op |-> "none", status |-> 0]

RECURSIVE SumLen(_, _)
SumLen(f, S) ==
    IF S = {} THEN 0
    ELSE LET x == CHOOSE y \in S : TRUE IN Len(f[x]) + SumLen(f, S \ {x})

\* the first idle thread takes the next request
Free(t) == pc[t] = "idle" /\ \A u \in Threads : u < t => pc[u] # "idle"

\* 1 when thread t begins a request while another request is being served
Busy(t) == IF \E u \in Threads \ {t} : pc[u] # "idle" THEN 1 ELSE 0

PostBudget == IF load = "board" THEN MaxInserted ELSE MaxAttempts

\* most of the posts of a run come from one address
Quota(a) == IF a = "" THEN 2 ELSE PostBudget

RowBudget ==
    IF load = "board" THEN MaxInserted
    ELSE IF load = "burst" THEN MaxBurstRows ELSE MaxAttempts

RowCap == IF load = "rapid" THEN MaxAttempts ELSE MaxComments

\* the addresses and the bodies of the POSTs of the run
Addrs == IF load = "rapid" THEN {"10.0.0.1"} ELSE RemoteAddrs

Posted == IF load = "rapid" THEN {[name |-> S_Ann, msg |-> S_hi]} ELSE Bodies

Init ==
    /\ load \in {"burst", "rapid", "board"}
    /\ ADMIN_KEY \in IF load = "board" THEN {"", "s3cret"} ELSE {""}
    /\ clock = 0
    /\ rate_store = [i \in Ips |-> <<>>]
    /\ comments = {}
    /\ pc = [t \in Threads |-> "idle"]
    /\ loc = [t \in Threads |-> Idle]
    /\ resp = NoResp
    /\ attempts = [i \in Ips |-> <<>>]
    /\ admitted = [i \in Ips |-> <<>>]
    /\ inserted = 0
    /\ deleted = {}
    /\ ticks = 0
    /\ overlaps = 0

\* time passes between two steps of the server
Tick ==
    /\ ticks < Len(TickDeltas)
    /\ clock' = clock + TickDeltas[ticks + 1]
    /\ ticks' = ticks + 1
    /\ resp' = NoResp
    /\ UNCHANGED <<ADMIN_KEY, rate_store, comments, pc, loc,
                   attempts, admitted, inserted, deleted, overlaps, load>>

\* lines 58-59: ip = request.remote_addr or "unknown"; now = time.time()
PostRecv(t) ==
    /\ Free(t)
    /\ SumLen(attempts, Ips) < PostBudget
    /\ overlaps + Busy(t) <= MaxOverlaps
    /\ overlaps' = overlaps + Busy(t)
    /\ \E a \in Addrs :
          /\ Len(attempts[ClientIp(a)]) < Quota(a)
          /\ loc' = [loc EXCEPT ![t] = [ip |-> ClientIp(a), now |-> clock, arr |-> <<>>]]
          /\ attempts' = [attempts EXCEPT ![ClientIp(a)] = Append(@, clock)]
    /\ pc' = [pc EXCEPT ![t] = "fetch"]
    /\ resp' = NoResp
    /\ UNCHANGED <<ADMIN_KEY, clock, rate_store, comments,
                   admitted, inserted, deleted, ticks, load>>

\* lines 60-65: fetch, prune, check; 429 or append to the local list.  The
\* request's body is not read on the 429 path; the response records what the
\* message of the rejected request was
PostCheck(t) ==
    /\ pc[t] = "fetch"
    /\ LET ip == loc[t].ip
           now == loc[t].now
           arr == Prune(rate_store[ip], now)
       IN IF OverLimit(arr)
          THEN /\ \E data \in Posted :
                    resp' = [op |-> "post", status |-> 429, ip |-> ip, now |-> now,
                             msg |-> NormMsg(data), body |-> "rate_limit_exceeded"]
               /\ rate_store' = Rejection(rate_store, ip, arr, now)
               /\ pc' = [pc EXCEPT ![t] = "idle"]
               /\ loc' = [loc EXCEPT ![t] = Idle]
               /\ UNCHANGED admitted
          ELSE /\ loc' = [loc EXCEPT ![t].arr = Append(arr, now)]
               /\ pc' = [pc EXCEPT ![t] = "store"]
               /\ admitted' = [admitted EXCEPT ![ip] = Append(@, now)]
               /\ resp' = NoResp
               /\ UNCHANGED rate_store
    /\ UNCHANGED <<ADMIN_KEY, clock, comments,
                   attempts, inserted, deleted, ticks, overlaps, load>>

\* line 66: rate_store[ip] = arr
PostStore(t) ==
    /\ pc[t] = "store"
    /\ rate_store' = StoreBack(rate_store, loc[t].ip, loc[t].arr)
    /\ pc' = [pc EXCEPT ![t] = "body"]
    /\ resp' = NoResp
    /\ UNCHANGED <<ADMIN_KEY, clock, comments, loc,
                   attempts, admitted, inserted, deleted, ticks, overlaps, load>>

\* the validation of line 100 left out
Invalid_Never(msg) == FALSE

\* the validation of line 100 turned around
Invalid_Inverted(msg) == msg # <<>>

\* line 100: if not msg
Invalid(msg) == msg = <<>>

\* lines 90-106: post_comment itself
PostBody(t) ==
    /\ pc[t] = "body"
    /\ \E data \in Posted :
          LET name == NormName(data)
              msg == NormMsg(data)
          IN IF Invalid(msg)
             THEN /\ resp' = [op |-> "post", status |-> 400, ip |-> loc[t].ip,
                              now |-> loc[t].now, msg |-> msg,
                              body |-> "empty_message"]
                  /\ UNCHANGED <<comments, inserted>>
             ELSE /\ Cardinality(comments) < RowCap
                  /\ inserted < RowBudget
                  /\ LET c == NewComment(name, msg)
                     IN /\ comments' = comments \cup {c}
                        /\ resp' = [op |-> "post", status |-> 201, ip |-> loc[t].ip,
                                    now |-> loc[t].now, msg |-> msg,
                                    body |-> to_dict(c)]
                  /\ inserted' = inserted + 1
    /\ pc' = [pc EXCEPT ![t] = "idle"]
    /\ loc' = [loc EXCEPT ![t] = Idle]
    /\ UNCHANGED <<ADMIN_KEY, clock, rate_store, attempts, admitted, deleted,
                   ticks, overlaps, load>>

----------------------------------------------------------------------------
(* get_comments (lines 75-86) *)

\* query-string values are sequences of characters; <<>> is an empty value
Digits == <<"0", "1", "2", "3", "4", "5", "6", "7", "8", "9">>

IsDigit(ch) == \E i \in 1..10 : Digits[i] = ch

DigitVal(ch) == (CHOOSE i \in 1..10 : Digits[i] = ch) - 1

RECURSIVE DigitsVal(_)
DigitsVal(s) ==
    IF s = <<>> THEN 0 ELSE DigitsVal(SubSeq(s, 1, Len(s) - 1)) * 10 + DigitVal(s[Len(s)])

IsDigits(s) == s # <<>> /\ \A i \in 1..Len(s) : IsDigit(s[i])

\* int(str): an optional sign, then decimal digits; anything else raises
\* ValueError
IsInt(s) ==
    \/ IsDigits(s)
    \/ s # <<>> /\ s[1] \in {"-", "+"} /\ IsDigits(Tail(s))

ParseInt(s) ==
    IF s[1] = "-" THEN 0 - DigitsVal(Tail(s))
    ELSE IF s[1] = "+" THEN DigitsVal(Tail(s))
    ELSE DigitsVal(s)

\* the query string: a parameter is absent ({}) or given ({value})
Queries ==
    { [limit |-> {}, offset |-> {}],
      [limit |-> {<<"1">>}, offset |-> {<<"0">>}],
      [limit |-> {<<"1">>}, offset |-> {<<"+", "1">>}],
      [limit |-> {<<"0">>}, offset |-> {}],
      [limit |-> {<<"5", "0", "0">>}, offset |-> {<<"-", "1">>}],
      [limit |-> {<<"-", "1">>}, offset |-> {}],
      [limit |-> {<<"a", "b", "c">>}, offset |-> {}],
      [limit |-> {}, offset |-> {<<>>}] }

\* request.args.get(k, dflt) then int(...): TRUE when int() raises
Raises(arg) == \E s \in arg : ~IsInt(s)

ArgInt(arg, dflt) == IF arg = {} THEN dflt ELSE ParseInt(CHOOSE s \in arg : TRUE)

\* line 79
ClampLimit(n) == IF n < LIMIT_CAP THEN n ELSE LIMIT_CAP

\* line 80
ClampOffset(n) == IF n > 0 THEN n ELSE 0

\* filter_by(approved=True).order_by(ts.desc()): every order of the approved
\* rows that is descending in ts (rows of equal ts come in any order)
Ordered(rows) ==
    { s \in [1..Cardinality(rows) -> rows] :
        /\ \A i, j \in DOMAIN s : i < j => s[i] # s[j] /\ s[i].ts >= s[j].ts }

\* .offset(offset).limit(limit) on SQLite: a negative LIMIT is no limit
Page(s, limit, offset) ==
    LET rest == SubSeq(s, offset + 1, Len(s))
    IN IF limit < 0 \/ limit >= Len(rest) THEN rest ELSE SubSeq(rest, 1, limit)

Approved == {c \in comments : c.approved}

ToDicts(s) == [i \in DOMAIN s |-> to_dict(s[i])]

Serials(s) == [i \in DOMAIN s |-> s[i].serial]

\* history: the row of the 201 response this request directly follows
JustCreated ==
    IF resp.op = "post" /\ resp.status = 201 THEN {resp.body} ELSE {}

GetComments(t) ==
    /\ Free(t)
    /\ load = "board"
    /\ \E q \in Queries :
          IF Raises(q.limit) \/ Raises(q.offset)
          THEN resp' = [op |-> "list", status |-> 400, body |-> "invalid pagination"]
          ELSE LET limit == ClampLimit(ArgInt(q.limit, DEFAULT_LIMIT))
                   offset == ClampOffset(ArgInt(q.offset, DEFAULT_OFFSET))
               IN \E s \in Ordered(Approved) :
                     resp' = [op |-> "list", status |-> 200,
                              body |-> ToDicts(Page(s, limit, offset)),
                              rows |-> Serials(Page(s, limit, offset)),
                              limit |-> limit, offset |-> offset,
                              reqLimit |-> ArgInt(q.limit, DEFAULT_LIMIT),
                              reqOffset |-> ArgInt(q.offset, DEFAULT_OFFSET),
                              after |-> JustCreated]
    /\ UNCHANGED <<ADMIN_KEY, clock, rate_store, comments, pc, loc,
                   attempts, admitted, inserted, deleted, ticks, overlaps, load>>

----------------------------------------------------------------------------
(* delete_comment (lines 108-119) *)

\* the query value taken before the header
SuppliedKey_Query(hdr, arg) == IF arg # "" THEN arg ELSE hdr

\* line 111: header X-ADMIN-KEY, else query admin_key, else ""
SuppliedKey(hdr, arg) == IF hdr # "" THEN hdr ELSE arg

\* the check without its `not ADMIN_KEY` half
Forbidden_Open(key) == key # ADMIN_KEY

\* line 112
Forbidden(key) == ADMIN_KEY = "" \/ key # ADMIN_KEY

CommentIds == 1..(MaxComments + 1)

\* the lookup taking the first row it meets instead of the row of that id
Lookup_Any(comment_id) ==
    IF comments = {} THEN {} ELSE {CHOOSE c \in comments : TRUE}

\* line 114: Comment.query.get(comment_id)
Lookup(comment_id) == {c \in comments : c.id = comment_id}

\* the delete never committed
Remove_Lost(rows, found) == rows

\* lines 117-118: db.session.delete(c); db.session.commit()
Remove(rows, found) == rows \ found

DeleteComment(t) ==
    /\ Free(t)
    /\ load = "board"
    /\ \E comment_id \in CommentIds, cred \in Credentials :
          LET key == SuppliedKey(cred.hdr, cred.arg)
              found == Lookup(comment_id)
          IN IF Forbidden(key)
             THEN /\ resp' = [op |-> "delete", status |-> 403, id |-> comment_id,
                              key |-> key, hdr |-> cred.hdr, arg |-> cred.arg,
                              body |-> "forbidden"]
                  /\ UNCHANGED <<comments, deleted>>
             ELSE IF found = {}
             THEN /\ resp' = [op |-> "delete", status |-> 404, id |-> comment_id,
                              key |-> key, hdr |-> cred.hdr, arg |-> cred.arg,
                              body |-> "not_found"]
                  /\ UNCHANGED <<comments, deleted>>
             ELSE /\ comments' = Remove(comments, found)
                  /\ deleted' = deleted \cup {[serial |-> c.serial, id |-> c.id] : c \in found}
                  /\ resp' = [op |-> "delete", status |-> 200, id |-> comment_id,
                              key |-> key, hdr |-> cred.hdr, arg |-> cred.arg,
                              body |-> "ok"]
    /\ UNCHANGED <<ADMIN_KEY, clock, rate_store, pc, loc,
                   attempts, admitted, inserted, ticks, overlaps, load>>

----------------------------------------------------------------------------
(* The server: worker threads take requests at any time *)

Handle(t) ==
    \/ PostRecv(t)
    \/ PostCheck(t)
    \/ PostStore(t)
    \/ PostBody(t)
    \/ GetComments(t)
    \/ DeleteComment(t)

Next == Tick \/ \E t \in Threads : Handle(t)

Spec == Init /\ [][Next]_vars

\* requests handled one at a time: a thread steps only while the others idle
Alone(t) == \A u \in Threads \ {t} : pc[u] = "idle"

NextSeq == Tick \/ \E t \in Threads : Alone(t) /\ Handle(t)

SpecSeq == Init /\ [][NextSeq]_vars

----------------------------------------------------------------------------
(* Properties *)

PostDone == resp.op = "post"

\* the number of entries of seq that lie in the window before `now`
Recent(seq, now) ==
    Cardinality({i \in DOMAIN seq : now - seq[i] < RATE_LIMIT_WINDOW})

\* thread t takes the limiter's decision in this step
Decides(t) == pc[t] = "fetch" /\ pc'[t] # "fetch"

Rejected(t) == pc'[t] = "idle" /\ resp'.op = "post" /\ resp'.status = 429

\* thread t returns from post_comment in this step
Returns(t) == pc[t] = "body" /\ pc'[t] = "idle"

\* C1, as claimed: a creation attempt succeeds (201) if and only if fewer than
\* RATE_LIMIT_MAX earlier creation attempts from its address lie within
\* RATE_LIMIT_WINDOW seconds before it.
C1_SucceedsIffFewPrior ==
    PostDone =>
        (resp.status = 201 <=>
            Recent(attempts[resp.ip], resp.now) - 1 < RATE_LIMIT_MAX)

\* C1, amended: a creation attempt is admitted (not answered 429) if and only
\* if fewer than RATE_LIMIT_MAX of the timestamps recorded for its address lie
\* within RATE_LIMIT_WINDOW seconds before it (now - t < RATE_LIMIT_WINDOW),
\* rejected attempts being never recorded; an admitted attempt ends in 201
\* with a non-empty message or in 400 empty_message.
C1_AdmittedIffFewRecorded ==
    [][\A t \in Threads :
          /\ Decides(t) =>
                (Rejected(t) <=>
                    Recent(rate_store[loc[t].ip], loc[t].now) >= RATE_LIMIT_MAX)
          /\ Returns(t) =>
                /\ resp'.op = "post" /\ resp'.status \in {201, 400}
                /\ resp'.status = 201 <=> resp'.msg # <<>>
                /\ resp'.status = 400 => resp'.body = "empty_message"]_vars

\* an attempt is rejected although one earlier attempt of its address, itself
\* rejected, was not recorded
C1_Witness ==
    /\ PostDone /\ resp.status = 429
    /\ Len(attempts[resp.ip]) > Len(admitted[resp.ip]) + 1

----------------------------------------------------------------------------
\* the number of entries of seq in the window of RATE_LIMIT_WINDOW seconds
\* that starts at w
InWindowFrom(seq, w) ==
    Cardinality({i \in DOMAIN seq : w <= seq[i] /\ seq[i] < w + RATE_LIMIT_WINDOW})

Count(seq, v) == Cardinality({i \in DOMAIN seq : seq[i] = v})

\* admitted attempts of ip at time v whose store-back (line 66) is yet to come
Pending(ip, v) ==
    Cardinality({t \in Threads : pc[t] = "store" /\ loc[t].ip = ip /\ loc[t].now = v})

Newest(seq) == Max({seq[i] : i \in DOMAIN seq})

\* C2: under concurrent requests the limiter acts as one atomic unit per
\* address: no window of RATE_LIMIT_WINDOW seconds holds more than
\* RATE_LIMIT_MAX admitted attempts of one address, and every admitted and
\* stored timestamp still in the window of the newest one is in the stored
\* sequence.
C2_LimiterAtomic ==
    \A ip \in Ips :
        /\ \A i \in DOMAIN admitted[ip] :
              InWindowFrom(admitted[ip], admitted[ip][i]) <= RATE_LIMIT_MAX
        /\ rate_store[ip] # <<>> =>
              \A i \in DOMAIN admitted[ip] :
                  LET v == admitted[ip][i]
                  IN Newest(rate_store[ip]) - v < RATE_LIMIT_WINDOW =>
                        Count(rate_store[ip], v) + Pending(ip, v)
                            >= Count(admitted[ip], v)

----------------------------------------------------------------------------
\* C3, as claimed: a creation request whose message is empty after trimming
\* always fails with 400 empty_message and leaves the table unchanged,
\* whatever the state of the rate limiter.
C3_EmptyAlways400 ==
    PostDone /\ resp.msg = <<>> =>
        resp.status = 400 /\ resp.body = "empty_message"

\* C3, amended: a creation request whose message is empty after trimming
\* never succeeds and never changes the table: it fails with 400
\* empty_message when the limiter admits it and with 429 when the limiter
\* rejects it.
C3_EmptyNeverStored ==
    [][resp'.op = "post" /\ resp'.msg = <<>> =>
          /\ comments' = comments
          /\ \/ resp'.status = 400 /\ resp'.body = "empty_message"
                   /\ \E t \in Threads : Returns(t)
             \/ resp'.status = 429 /\ \E t \in Threads : Decides(t)]_vars

\* an empty message fails validation at an address the limiter has on record
C3_Witness ==
    /\ PostDone /\ resp.msg = <<>> /\ resp.status = 400
    /\ Len(rate_store[resp.ip]) = RATE_LIMIT_MAX

----------------------------------------------------------------------------
\* C4: with no admin secret configured every delete request is answered 403,
\* whatever key and id it carries, and the table is unchanged.
C4_NoSecretForbidden ==
    [][ADMIN_KEY = "" /\ resp'.op = "delete" =>
          resp'.status = 403 /\ comments' = comments]_vars

\* no secret configured, and a delete of a stored comment with the empty key
\* (which equals the unset secret) is refused
C4_Witness ==
    /\ ADMIN_KEY = "" /\ resp.op = "delete" /\ resp.status = 403
    /\ resp.key = ADMIN_KEY
    /\ \E c \in comments : c.id = resp.id

----------------------------------------------------------------------------
\* every row ever created, in the table or deleted: its serial and its id
Created ==
    {[serial |-> c.serial, id |-> c.id] : c \in comments} \cup deleted

\* C5: comment ids are unique, assigned in strictly increasing order and
\* never reused: of two comments ever created the later one has the greater
\* id, also when the earlier one has been deleted.
C5_IdsNeverReused ==
    \A c \in Created, d \in Created :
        d.serial < c.serial => d.id < c.id

----------------------------------------------------------------------------
Min(S) == CHOOSE x \in S : \A y \in S : x <= y

ListDone == resp.op = "list" /\ resp.status = 200

\* C6: for every accepted limit and offset the list response holds no more
\* than min(limit, 200) items (none when that is negative), skips exactly
\* offset of the approved records (none when offset is negative) and returns
\* what remains, up to the limit, in descending order of creation time.
C6_PageBounded ==
    ListDone =>
        LET most == Max({0, Min({resp.reqLimit, LIMIT_CAP})})
            rest == Max({0, Cardinality(Approved) - Max({0, resp.reqOffset})})
        IN /\ Len(resp.body) = Min({most, rest})
           /\ \A i, j \in DOMAIN resp.body :
                 i < j => resp.body[i].ts >= resp.body[j].ts

----------------------------------------------------------------------------
Gone == {d.serial : d \in deleted}

\* C7: a comment whose delete request returned success is permanently
\* removed: it is never again a row of the table and no later list response
\* holds it.
C7_DeletedStaysGone ==
    /\ \A c \in comments : c.serial \notin Gone
    /\ ListDone => \A i \in DOMAIN resp.rows : resp.rows[i] \notin Gone

\* a list response that holds a comment, after another comment was deleted
\* and while a later comment carries the id of the deleted one
C7_Witness ==
    /\ ListDone /\ resp.rows # <<>>
    /\ \E d \in deleted : \E c \in comments : c.id = d.id

----------------------------------------------------------------------------
\* C8: a delete request with the correct admin key for an id that is not in
\* the store returns 404 and leaves the store unchanged; for an id that is in
\* the store it returns 200 and the id is in the store no longer, so that a
\* second delete of that id returns 404.
C8_MissingIdNotFound ==
    [][resp'.op = "delete" /\ ADMIN_KEY # "" /\ resp'.key = ADMIN_KEY =>
          IF \E c \in comments : c.id = resp'.id
          THEN /\ resp'.status = 200
               /\ \A c \in comments' : c.id # resp'.id
               /\ \A c \in comments : c.id # resp'.id => c \in comments'
          ELSE /\ resp'.status = 404 /\ resp'.body = "not_found"
               /\ comments' = comments]_vars

\* the second delete of an id: the id was deleted before, is in the store no
\* longer, and the request with the correct key is answered 404 while another
\* comment is in the store
C8_Witness ==
    /\ resp.op = "delete" /\ resp.status = 404 /\ resp.key = ADMIN_KEY
    /\ \E d \in deleted : d.id = resp.id
    /\ comments # {}

----------------------------------------------------------------------------
\* C9: once RATE_LIMIT_WINDOW seconds or more have passed since every
\* recorded attempt of an address, its next creation attempt is admitted, and
\* an admitted attempt with a non-empty message succeeds with 201.
C9_AdmittedAfterWindow ==
    [][\A t \in Threads :
          /\ Decides(t) /\ (\A i \in DOMAIN rate_store[loc[t].ip] :
                               loc[t].now - rate_store[loc[t].ip][i] >= RATE_LIMIT_WINDOW)
                => pc'[t] = "store"
          /\ Returns(t) /\ resp'.msg # <<>> => resp'.status = 201]_vars

\* five successful posts of one address, a rejected sixth, then a successful
\* post RATE_LIMIT_WINDOW seconds or more after each of the five
C9_Witness ==
    /\ PostDone /\ resp.status = 201
    /\ Len(admitted[resp.ip]) = RATE_LIMIT_MAX + 1
    /\ Len(attempts[resp.ip]) = RATE_LIMIT_MAX + 2
    /\ inserted = RATE_LIMIT_MAX + 1
    /\ \A i \in 1..RATE_LIMIT_MAX :
          resp.now - admitted[resp.ip][i] >= RATE_LIMIT_WINDOW

----------------------------------------------------------------------------
\* C10: a list request made right after a successful create, with offset 0
\* and a limit of at least 1, returns the created comment exactly as the
\* create response returned it (id, normalized name and message, approved,
\* creation time in epoch milliseconds).
C10_CreatedIsListed ==
    ListDone /\ resp.after # {} /\ resp.reqOffset = 0 /\ resp.reqLimit >= 1 =>
        \E i \in DOMAIN resp.body : resp.body[i] \in resp.after

----------------------------------------------------------------------------
\* C11: when the limiter rejects a creation attempt (the count of stored
\* timestamps of its address in the window is RATE_LIMIT_MAX or more) the
\* attempt is not recorded: the stored sequence of its address and of every
\* other address is exactly what it was before.
C11_RejectedNotRecorded ==
    [][\A t \in Threads :
          Decides(t) /\ Recent(rate_store[loc[t].ip], loc[t].now) >= RATE_LIMIT_MAX =>
              /\ Rejected(t)
              /\ rate_store' = rate_store
              /\ admitted' = admitted]_vars

\* a rejected attempt, while the other address has timestamps on record and
\* the rejected address holds RATE_LIMIT_MAX of them
C11_Witness ==
    /\ PostDone /\ resp.status = 429
    /\ \E b \in Ips \ {resp.ip} : rate_store[b] # <<>>
    /\ Len(rate_store[resp.ip]) = RATE_LIMIT_MAX

----------------------------------------------------------------------------
\* thread t was admitted by the limiter: the time of its attempt is in the
\* history of admitted attempts of its address
WasAdmitted(t) ==
    \E i \in DOMAIN admitted[loc[t].ip] : admitted[loc[t].ip][i] = loc[t].now

\* C12: both gates are enforced before any change of the table: a row is
\* inserted only by a creation request that the limiter admitted and whose
\* normalized message is non-empty, and a request rejected by either gate
\* (429 or 400) inserts nothing.
C12_GatesBeforeInsert ==
    [][/\ comments' \ comments # {} =>
            /\ \E t \in Threads :
                  Returns(t) /\ WasAdmitted(t) /\ loc[t].arr # <<>>
            /\ resp'.op = "post" /\ resp'.status = 201 /\ resp'.msg # <<>>
            /\ \A c \in comments' \ comments : c.msg = resp'.msg
       /\ resp'.op = "post" /\ resp'.status \in {400, 429} =>
            comments' = comments /\ inserted' = inserted]_vars

\* a comment created by an admitted request after an earlier admitted request
\* of the same address failed validation and inserted nothing
C12_Witness ==
    /\ PostDone /\ resp.status = 201 /\ comments # {}
    /\ Len(admitted[resp.ip]) >= 2 /\ inserted = 1

----------------------------------------------------------------------------
\* C13: with requests handled one at a time the limiter is a sliding window:
\* no window of RATE_LIMIT_WINDOW seconds holds more than RATE_LIMIT_MAX
\* admitted attempts of one address, and the stored timestamp sequence of an
\* address never holds more than RATE_LIMIT_MAX entries.
C13_SlidingWindow ==
    \A ip \in Ips :
        /\ \A i \in DOMAIN admitted[ip] :
              InWindowFrom(admitted[ip], admitted[ip][i]) <= RATE_LIMIT_MAX
        /\ Len(rate_store[ip]) <= RATE_LIMIT_MAX

\* an address with more than RATE_LIMIT_MAX admitted attempts in all, a full
\* stored sequence and a rejected attempt
C13_Witness ==
    \E ip \in Ips :
        /\ Len(admitted[ip]) > RATE_LIMIT_MAX
        /\ Len(rate_store[ip]) = RATE_LIMIT_MAX
        /\ Len(attempts[ip]) > Len(admitted[ip])

----------------------------------------------------------------------------
\* a delete response to a request whose supplied key (header X-ADMIN-KEY,
\* else query admin_key, else empty) is not the configured admin secret
WrongKey(r) ==
    /\ r.op = "delete"
    /\ (IF r.hdr # "" THEN r.hdr ELSE r.arg) # ADMIN_KEY

\* C14: with a non-empty admin secret configured, a delete request whose
\* supplied key is not exactly that secret is answered 403 and leaves the
\* store unchanged, whether or not the id exists; a record is removed only by
\* a delete request whose supplied key is the secret.
C14_WrongKeyForbidden ==
    [][/\ ADMIN_KEY # "" /\ WrongKey(resp') =>
            resp'.status = 403 /\ comments' = comments
       /\ comments \ comments' # {} =>
            resp'.op = "delete" /\ ~WrongKey(resp') /\ resp'.status = 200]_vars

\* a request for a stored id that carries the secret in the query but another
\* value in the header is refused
C14_Witness ==
    /\ ADMIN_KEY # "" /\ WrongKey(resp) /\ resp.status = 403
    /\ resp.hdr # "" /\ resp.arg = ADMIN_KEY
    /\ \E c \in comments : c.id = resp.id

----------------------------------------------------------------------------
\* C15: for every limit and offset that parse as integers the values that
\* reach the store query are clamped: the limit lies in 0..LIMIT_CAP and the
\* offset is not negative.
C15_QueryClamped ==
    ListDone =>
        /\ 0 <= resp.limit /\ resp.limit <= LIMIT_CAP
        /\ resp.offset >= 0

----------------------------------------------------------------------------
\* the fields of a stored comment are within their limits
WellFormed(c) ==
    /\ c.msg # <<>> /\ StrLen(c.msg) >= 1 /\ StrLen(c.msg) <= MSG_MAX
    /\ c.name # <<>> /\ StrLen(c.name) >= 1 /\ StrLen(c.name) <= NAME_MAX
    /\ c.approved = TRUE

\* C16: every stored comment has a message that is non-empty and at most
\* MSG_MAX characters, a name that is non-empty and at most NAME_MAX
\* characters and approved = true, and no operation changes the fields of an
\* existing record: a record of the table is in the next state the same
\* record or is gone.
C16_RecordsWellFormed ==
    [][/\ \A c \in comments' : WellFormed(c)
       /\ \A c \in comments :
             c \in comments' \/ \A d \in comments' : d.serial # c.serial]_vars

\* a stored comment with a message of MSG_MAX and a name of NAME_MAX
\* characters, both cut, beside one that was given the placeholder name
C16_Witness ==
    /\ \E c \in comments : StrLen(c.msg) = MSG_MAX /\ StrLen(c.name) = NAME_MAX
    /\ \E c \in comments : c.name = Anon /\ StrLen(c.msg) < MSG_MAX

----------------------------------------------------------------------------
----------------------------------------------------------------------------
\* the address of the creation attempt that thread t advances in this step
Acting(t) == IF pc[t] = "idle" THEN loc'[t].ip ELSE loc[t].ip

\* C18: admission is independent per address under any interleaving: a step
\* of a creation attempt of one address never changes the stored sequence of
\* another address, the decision on an attempt depends on the stored sequence
\* of its own address only, and list and delete requests never change the
\* limiter's state.
C18_PerAddress ==
    [][/\ \A t \in Threads :
             pc'[t] # pc[t] =>
                 \A b \in Ips \ {Acting(t)} : rate_store'[b] = rate_store[b]
       /\ \A t \in Threads :
             Decides(t) =>
                 (Rejected(t) <=>
                     Recent(rate_store[loc[t].ip], loc[t].now) >= RATE_LIMIT_MAX)
       /\ resp'.op \in {"list", "delete"} =>
             rate_store' = rate_store /\ admitted' = admitted]_vars

\* attempts of two addresses in progress at once, both addresses with
\* timestamps on record
C18_Witness ==
    /\ \A b \in Ips : rate_store[b] # <<>>
    /\ \E t \in Threads, u \in Threads :
          /\ pc[t] # "idle" /\ pc[u] # "idle"
          /\ loc[t].ip # loc[u].ip

====
